---- MODULE Spec2Model ----
(***************************************************************************)
(* A model of pyFDT's fdt package (src/fdt/__init__.py): the FDT class     *)
(* (get_node, add_item, walk, merge, to_dtb) and the module functions      *)
(* parse_dts, parse_dtb and diff.                                          *)
(*                                                                         *)
(* Strings and byte strings are sequences of character codes.  A Node is   *)
(* the record [name, props, nodes]; a node object is identified by its     *)
(* position, the sequence of child indexes leading to it from the root,    *)
(* and its parent back-link is that position without its last index.       *)
(* Header objects and reservation entries (dicts) are mutable objects that *)
(* several FDT objects may share, so they live in the heaps hdr and ent    *)
(* and FDT objects hold references to them.                                *)
(***************************************************************************)
EXTENDS Integers, Sequences, FiniteSets, TLC

VARIABLES hdr, ent, fdt, ret

vars == <<hdr, ent, fdt, ret>>

(***************************************************************************)
(* Bounds of the model.                                                    *)
(***************************************************************************)
MaxNodes == 3
MaxProps == 2
MaxEntries == 2
MaxPathLen == 2
MaxSlashes == 2
MaxMerges == 2

(***************************************************************************)
(* Character codes.                                                        *)
(***************************************************************************)
SLASH == 47
ChA == 97
ChB == 98
ChP == 112
ChQ == 113

\* None, as a value no header field takes
None == 0 - 1

NameA == <<ChA>>
NameB == <<ChB, ChB, ChB, ChB>>
NodeNames == {NameA, NameB}

(***************************************************************************)
(* Python string builtins used by the code.                                *)
(***************************************************************************)
RECURSIVE lstrip(_, _)
lstrip(s, c) ==
    IF s # <<>> /\ Head(s) = c THEN lstrip(Tail(s), c) ELSE s

RECURSIVE SplitAcc(_, _, _)
SplitAcc(s, sep, cur) ==
    IF s = <<>> THEN <<cur>>
    ELSE IF Head(s) = sep THEN <<cur>> \o SplitAcc(Tail(s), sep, <<>>)
    ELSE SplitAcc(Tail(s), sep, Append(cur, Head(s)))

split(s, sep) == SplitAcc(s, sep, <<>>)

RECURSIVE str_replace(_, _, _)
str_replace(s, old, new) ==
    IF Len(s) < Len(old) THEN s
    ELSE IF SubSeq(s, 1, Len(old)) = old
         THEN new \o str_replace(SubSeq(s, Len(old) + 1, Len(s)), old, new)
         ELSE <<Head(s)>> \o str_replace(Tail(s), old, new)

RECURSIVE join(_, _)
join(sep, parts) ==
    IF parts = <<>> THEN <<>>
    ELSE IF Len(parts) = 1 THEN parts[1]
    ELSE parts[1] \o sep \o join(sep, Tail(parts))

(***************************************************************************)
(* Node (fdt/item.py).                                                     *)
(***************************************************************************)
Node(name) == [name |-> name, props |-> <<>>, nodes |-> <<>>]

RootName == <<SLASH>>

RECURSIVE NodeAt(_, _)
NodeAt(root, pos) ==
    IF pos = <<>> THEN root ELSE NodeAt(root.nodes[Head(pos)], Tail(pos))

RECURSIVE ReplaceAt(_, _, _)
ReplaceAt(root, pos, new) ==
    IF pos = <<>> THEN new
    ELSE [root EXCEPT !.nodes[Head(pos)] = ReplaceAt(@, Tail(pos), new)]

\* index of the first child called name, 0 when there is none
get_subnode(node, name) ==
    IF \E i \in 1..Len(node.nodes) : node.nodes[i].name = name
    THEN CHOOSE i \in 1..Len(node.nodes) :
            /\ node.nodes[i].name = name
            /\ \A j \in 1..(i - 1) : node.nodes[j].name # name
    ELSE 0

\* index of the first property called name, 0 when there is none
get_property(node, name) ==
    IF \E i \in 1..Len(node.props) : node.props[i].name = name
    THEN CHOOSE i \in 1..Len(node.props) :
            /\ node.props[i].name = name
            /\ \A j \in 1..(i - 1) : node.props[j].name # name
    ELSE 0

\* Node.append of a node, at the node object at pos
AppendNodeAt(root, pos, item) ==
    LET n == NodeAt(root, pos)
    IN  ReplaceAt(root, pos, [n EXCEPT !.nodes = Append(@, item)])

\* Node.append of a property, at the node object at pos
AppendPropAt(root, pos, item) ==
    LET n == NodeAt(root, pos)
    IN  ReplaceAt(root, pos, [n EXCEPT !.props = Append(@, item)])

RECURSIVE CountNodes(_)
CountNodes(n) ==
    LET RECURSIVE Sum(_)
        Sum(i) == IF i = 0 THEN 0 ELSE CountNodes(n.nodes[i]) + Sum(i - 1)
    IN  1 + Sum(Len(n.nodes))

RECURSIVE CountProps(_)
CountProps(n) ==
    LET RECURSIVE Sum(_)
        Sum(i) == IF i = 0 THEN 0 ELSE CountProps(n.nodes[i]) + Sum(i - 1)
    IN  Len(n.props) + Sum(Len(n.nodes))

\* the positions of all node objects of the subtree at pos
RECURSIVE Positions(_, _)
Positions(root, pos) ==
    LET n == NodeAt(root, pos)
    IN  {pos} \cup UNION {Positions(root, Append(pos, i)) : i \in 1..Len(n.nodes)}

(***************************************************************************)
(* FDT.get_node                                                            *)
(***************************************************************************)
RECURSIVE GetNodeLoop(_, _, _, _)
GetNodeLoop(root, pos, names, create) ==
    IF names = <<>> THEN [ok |-> TRUE, pos |-> pos, root |-> root]
    ELSE LET node == NodeAt(root, pos)
             item == get_subnode(node, Head(names))
         IN  IF item = 0
             THEN IF create
                  THEN LET root2 == AppendNodeAt(root, pos, Node(Head(names)))
                           new   == Len(NodeAt(root2, pos).nodes)
                       IN  GetNodeLoop(root2, Append(pos, new), Tail(names), create)
                  ELSE [ok |-> FALSE, pos |-> <<>>, root |-> root]
             ELSE GetNodeLoop(root, Append(pos, item), Tail(names), create)

PathNames_NoStrip(path) ==
    IF path # <<>> THEN split(path, SLASH) ELSE <<>>

PathNames(path) ==
    LET p == lstrip(path, SLASH)
    IN  IF p # <<>> THEN split(p, SLASH) ELSE <<>>

get_node(root, path, create) ==
    GetNodeLoop(root, <<>>, PathNames(path), create)

\* FDT.add_item of a node / of a property
add_item_node(root, obj, path, create) ==
    LET g == get_node(root, path, create)
    IN  IF g.ok THEN [ok |-> TRUE, root |-> AppendNodeAt(g.root, g.pos, obj)]
        ELSE [ok |-> FALSE, root |-> root]

add_item_prop(root, obj, path, create) ==
    LET g == get_node(root, path, create)
    IN  IF g.ok THEN [ok |-> TRUE, root |-> AppendPropAt(g.root, g.pos, obj)]
        ELSE [ok |-> FALSE, root |-> root]

(***************************************************************************)
(* Node.path and the path string FDT.walk builds for a node.               *)
(***************************************************************************)
\* the names of the proper ancestors of the node at pos, the root's first
RECURSIVE AncestorNames(_, _)
AncestorNames(root, pos) ==
    IF pos = <<>> THEN <<>>
    ELSE <<root.name>> \o AncestorNames(root.nodes[Head(pos)], Tail(pos))

NodePath(root, pos) == join(<<SLASH>>, AncestorNames(root, pos))

CurrentPath(root, pos) ==
    str_replace(str_replace(NodePath(root, pos) \o <<SLASH>> \o NodeAt(root, pos).name,
                    <<SLASH, SLASH, SLASH>>, <<SLASH>>),
            <<SLASH, SLASH>>, <<SLASH>>)

(***************************************************************************)
(* The program state: two FDT objects A and B, each as built by FDT().     *)
(***************************************************************************)
FdtIds == {"A", "B"}

NewHeader ==
    [version |-> None, last_comp_version |-> 0, boot_cpuid_phys |-> 0,
     total_size |-> 0, off_dt_struct |-> 0, off_dt_strings |-> 0,
     off_mem_rsvmap |-> 0, size_dt_strings |-> 0, size_dt_struct |-> 0]

NewFDT(h) == [header |-> h, entries |-> <<>>, root_node |-> Node(RootName)]

Init ==
    /\ hdr = [t \in FdtIds |-> NewHeader]
    /\ ent = [t \in FdtIds |-> <<>>]
    /\ fdt = [t \in FdtIds |-> NewFDT(t)]
    /\ ret = [op |-> "none"]

Building == ret.op = "none"

PropEmptyP == [name |-> <<ChP>>, kind |-> "Empty", raw |-> <<>>]
PropWords1 == [name |-> <<ChP>>, kind |-> "Words", raw |-> <<0, 0, 0, 1>>]
PropWords2 == [name |-> <<ChP>>, kind |-> "Words", raw |-> <<0, 0, 0, 2>>]

\* fdt.add_item(Node(name), path) at the path of an existing node
AddNode(t, name, maxn) ==
    /\ Building
    /\ CountNodes(fdt[t].root_node) < 1 + maxn
    /\ \E pos \in Positions(fdt[t].root_node, <<>>) :
         LET r == add_item_node(fdt[t].root_node, Node(name),
                                CurrentPath(fdt[t].root_node, pos), TRUE)
         IN  fdt' = [fdt EXCEPT ![t].root_node = r.root]
    /\ UNCHANGED <<hdr, ent, ret>>

\* fdt.add_item(prop, path) at the path of an existing node that has no
\* property of that name
AddProp(t, prop, maxp) ==
    /\ Building
    /\ CountProps(fdt[t].root_node) < maxp
    /\ \E pos \in Positions(fdt[t].root_node, <<>>) :
         LET path == CurrentPath(fdt[t].root_node, pos)
             g    == get_node(fdt[t].root_node, path, FALSE)
             r    == add_item_prop(fdt[t].root_node, prop, path, TRUE)
         IN  /\ get_property(NodeAt(fdt[t].root_node, g.pos), prop.name) = 0
             /\ fdt' = [fdt EXCEPT ![t].root_node = r.root]
    /\ UNCHANGED <<hdr, ent, ret>>

\* node.append(prop) on a node object of the tree that has no property of
\* that name
NodeAppend(t, prop, maxp) ==
    /\ Building
    /\ CountProps(fdt[t].root_node) < maxp
    /\ \E pos \in Positions(fdt[t].root_node, <<>>) :
         /\ get_property(NodeAt(fdt[t].root_node, pos), prop.name) = 0
         /\ fdt' = [fdt EXCEPT ![t].root_node = AppendPropAt(@, pos, prop)]
    /\ UNCHANGED <<hdr, ent, ret>>

(***************************************************************************)
(* fdt.get_node(path, create) as an operation on the tree A.               *)
(***************************************************************************)
RECURSIVE Slashes(_)
Slashes(n) == IF n = 0 THEN <<>> ELSE <<SLASH>> \o Slashes(n - 1)

RECURSIVE SeqsUpTo(_, _)
SeqsUpTo(S, n) ==
    IF n = 0 THEN {<<>>}
    ELSE LET shorter == SeqsUpTo(S, n - 1)
         IN  shorter \cup {Append(s, x) : s \in shorter, x \in S}

GetNode(t) ==
    /\ ret.op = "none"
    /\ \E k \in 0..MaxSlashes, names \in SeqsUpTo(NodeNames, MaxPathLen),
          create \in BOOLEAN :
         LET path == Slashes(k) \o join(<<SLASH>>, names)
             g    == get_node(fdt[t].root_node, path, create)
         IN  /\ fdt' = [fdt EXCEPT ![t].root_node = g.root]
             /\ ret' = [op |-> "get_node", t |-> t, path |-> path,
                        names |-> names, create |-> create,
                        pre |-> fdt[t].root_node, ok |-> g.ok, pos |-> g.pos]
    /\ UNCHANGED <<hdr, ent>>

(***************************************************************************)
(* FDT.walk: a generator.  ret holds its frame between two yields: the     *)
(* node it is at, the list nodes of pending node objects, and the triples  *)
(* yielded so far (each with the position of the node object it is for).   *)
(***************************************************************************)
ChildPositions(root, pos) ==
    [i \in 1..Len(NodeAt(root, pos).nodes) |-> Append(pos, i)]

\* nodes += node.nodes
WalkPush_Replace(nodes, root, pos) == ChildPositions(root, pos)

WalkPush(nodes, root, pos) == nodes \o ChildPositions(root, pos)

\* the index nodes.pop() takes
WalkPopIndex_First(nodes) == 1

WalkPopIndex(nodes) == Len(nodes)

RemoveAt(s, i) == SubSeq(s, 1, i - 1) \o SubSeq(s, i + 1, Len(s))

WalkPathOf(root, pos, path, relative) ==
    LET current_path == CurrentPath(root, pos)
    IN  IF path # <<>> /\ relative
        THEN lstrip(str_replace(current_path, path, <<>>), SLASH)
        ELSE current_path

WalkTriple(root, pos, path, relative) ==
    [path  |-> WalkPathOf(root, pos, path, relative),
     pos   |-> pos,
     nodes |-> NodeAt(root, pos).nodes,
     props |-> NodeAt(root, pos).props]

\* all the triples of a walk that is at node with nodes pending
RECURSIVE WalkRun(_, _, _, _)
WalkRun(root, node, nodes, out) ==
    LET nodes1 == WalkPush(nodes, root, node)
        out1   == Append(out, WalkTriple(root, node, <<>>, FALSE))
        k      == WalkPopIndex(nodes1)
    IN  IF nodes1 = <<>> THEN out1
        ELSE WalkRun(root, nodes1[k], RemoveAt(nodes1, k), out1)

\* list(fdt.walk())
WalkAll(root) == WalkRun(root, <<>>, <<>>, <<>>)

WalkStart(t) ==
    /\ ret.op = "none"
    /\ \E k \in 0..1, names \in SeqsUpTo(NodeNames, MaxPathLen),
          relative \in BOOLEAN :
         LET path == Slashes(k) \o join(<<SLASH>>, names)
             g    == get_node(fdt[t].root_node, path, FALSE)
         IN  ret' = IF g.ok
                    THEN [op |-> "walk", t |-> t, path |-> path,
                          relative |-> relative, start |-> g.pos,
                          node |-> g.pos, nodes |-> <<>>, out |-> <<>>,
                          done |-> FALSE]
                    ELSE [op |-> "walk_error", t |-> t, path |-> path]
    /\ UNCHANGED <<hdr, ent, fdt>>

\* one turn of the loop: from the resumption of the generator to its next
\* yield or its end
WalkStep ==
    /\ ret.op = "walk" /\ ~ret.done
    /\ LET root   == fdt[ret.t].root_node
           nodes1 == WalkPush(ret.nodes, root, ret.node)
           triple == WalkTriple(root, ret.node, ret.path, ret.relative)
           k      == WalkPopIndex(nodes1)
       IN  ret' = IF nodes1 = <<>>
                  THEN [ret EXCEPT !.out = Append(@, triple), !.nodes = nodes1,
                                   !.done = TRUE]
                  ELSE [ret EXCEPT !.out = Append(@, triple),
                                   !.node = nodes1[k],
                                   !.nodes = RemoveAt(nodes1, k)]
    /\ UNCHANGED <<hdr, ent, fdt>>

NextWalk ==
    \/ \E name \in NodeNames : AddNode("A", name, MaxNodes)
    \/ AddProp("A", PropEmptyP, 1)
    \/ WalkStart("A")
    \/ WalkStep

SpecWalk == Init /\ [][NextWalk]_vars

(***************************************************************************)
(* Reservation entries.  An entry is a dict object; ent[t][i] is the i-th  *)
(* dict created for the FDT object t, and <<t, i>> is the reference to it. *)
(***************************************************************************)
EntryOf(heap, ref) == heap[ref[1]][ref[2]]

\* the (address, size) values of a list of references
EntryValues(heap, refs) == [i \in 1..Len(refs) |-> EntryOf(heap, refs[i])]

\* fdt.entries.append({'address': a, 'size': s})
AddEntry(t, a, s, maxe) ==
    /\ Building
    /\ Len(fdt[t].entries) < maxe
    /\ ent' = [ent EXCEPT ![t] = Append(@, [address |-> a, size |-> s])]
    /\ fdt' = [fdt EXCEPT ![t].entries = Append(@, <<t, Len(ent[t]) + 1>>)]
    /\ UNCHANGED <<hdr, ret>>

\* fdt.header.version = v
SetVersion(t, v) ==
    /\ Building
    /\ hdr[fdt[t].header].version = None
    /\ hdr' = [hdr EXCEPT ![fdt[t].header].version = v]
    /\ UNCHANGED <<ent, fdt, ret>>

(***************************************************************************)
(* Node.merge (fdt/item.py)                                                *)
(***************************************************************************)
RECURSIVE MergeProps(_, _, _)
MergeProps(props, others, replace) ==
    IF others = <<>> THEN props
    ELSE LET prop  == Head(others)
             index == get_property([props |-> props], prop.name)
             next  == IF index = 0 THEN Append(props, prop)
                      ELSE IF replace THEN [props EXCEPT ![index] = prop]
                      ELSE props
         IN  MergeProps(next, Tail(others), replace)

RECURSIVE MergeNode(_, _, _)
MergeNode(self, other, replace) ==
    LET RECURSIVE MergeSubnodes(_, _)
        MergeSubnodes(nodes, others) ==
            IF others = <<>> THEN nodes
            ELSE LET sub   == Head(others)
                     index == get_subnode([nodes |-> nodes], sub.name)
                     next  == IF index = 0 THEN Append(nodes, sub)
                              ELSE [nodes EXCEPT
                                      ![index] = MergeNode(@, sub, replace)]
                 IN  MergeSubnodes(next, Tail(others))
    IN  [name  |-> self.name,
         props |-> MergeProps(self.props, other.props, replace),
         nodes |-> MergeSubnodes(self.nodes, other.nodes)]

(***************************************************************************)
(* FDT.merge                                                               *)
(***************************************************************************)
\* the first index of the list of references whose entry has the address,
\* 0 when there is none
FindAddress(heap, refs, address) ==
    IF \E i \in 1..Len(refs) : EntryOf(heap, refs[i]).address = address
    THEN CHOOSE i \in 1..Len(refs) :
            /\ EntryOf(heap, refs[i]).address = address
            /\ \A j \in 1..(i - 1) : EntryOf(heap, refs[j]).address # address
    ELSE 0

\* what the code does with the entry it finds at the address of in_entry
MergeFound_Keep(heap, ref, in_entry) == heap

MergeFound(heap, ref, in_entry) ==
    [heap EXCEPT ![ref[1]][ref[2]].address = in_entry.size]

\* the loop over fdt_obj.entries: the heap and self.entries after it
RECURSIVE MergeEntries(_, _, _)
MergeEntries(heap, entries, in_refs) ==
    IF in_refs = <<>> THEN [heap |-> heap, entries |-> entries]
    ELSE LET in_entry == EntryOf(heap, Head(in_refs))
             index    == FindAddress(heap, entries, in_entry.address)
         IN  IF index # 0
             THEN MergeEntries(MergeFound(heap, entries[index], in_entry),
                               entries, Tail(in_refs))
             ELSE MergeEntries(heap, Append(entries, Head(in_refs)), Tail(in_refs))

MergeHeaderRef(self, other) ==
    IF hdr[fdt[self].header].version = None
    THEN fdt[other].header
    ELSE fdt[self].header

MergeHeaders(self, other) ==
    LET mine   == hdr[fdt[self].header].version
        theirs == hdr[fdt[other].header].version
    IN  IF mine # None /\ theirs # None /\ theirs > mine
        THEN [hdr EXCEPT ![fdt[self].header].version = theirs]
        ELSE hdr

Merge(self, other) ==
    /\ ret.op \in {"none", "merge"}
    /\ (ret.op = "merge" => ret.n < MaxMerges)
    /\ \E replace \in BOOLEAN :
         LET m == MergeEntries(ent, fdt[self].entries, fdt[other].entries)
         IN  /\ hdr' = MergeHeaders(self, other)
             /\ ent' = m.heap
             /\ fdt' = [fdt EXCEPT
                          ![self].header = MergeHeaderRef(self, other),
                          ![self].entries = m.entries,
                          ![self].root_node =
                              MergeNode(@, fdt[other].root_node, replace)]
             /\ ret' = [op |-> "merge", self |-> self, other |-> other,
                        replace |-> replace,
                        n |-> IF ret.op = "merge" THEN ret.n + 1 ELSE 1,
                        pre_self |-> EntryValues(ent, fdt[self].entries),
                        pre_other |-> EntryValues(ent, fdt[other].entries),
                        pre_fdt |-> fdt, pre_hdr |-> hdr, pre_ent |-> ent]

NextMerge ==
    \/ \E a \in {1, 2}, z \in {2, 3} : AddEntry("A", a, z, MaxEntries)
    \/ \E a \in {1, 2}, z \in {2, 3} : AddEntry("B", a, z, MaxEntries)
    \/ SetVersion("A", 16)
    \/ \E v \in {16, 17} : SetVersion("B", v)
    \/ AddProp("A", PropWords1, 1)
    \/ AddNode("B", NameA, 1)
    \/ AddProp("B", PropWords2, 1)
    \/ Merge("A", "B")

SpecMerge == Init /\ [][NextMerge]_vars

(***************************************************************************)
(* Big-endian packing (struct.pack / struct.unpack_from).  A read that     *)
(* leaves the data raises; the readers return Bad for it.  The model's     *)
(* numbers stay below 2^31: the readers return Huge for a larger value.    *)
(***************************************************************************)
Bad == 0 - 2
Huge == 0 - 3

BE32(n) ==
    <<(n \div 16777216) % 256, (n \div 65536) % 256, (n \div 256) % 256, n % 256>>

\* pack('>Q', n)
BE64(n) == <<0, 0, 0, 0>> \o BE32(n)

\* unpack_from(">I", data, at)[0]
U32(data, at) ==
    IF at < 0 \/ at + 4 > Len(data) THEN Bad
    ELSE IF data[at + 1] >= 128 THEN Huge
    ELSE data[at + 1] * 16777216 + data[at + 2] * 65536
            + data[at + 3] * 256 + data[at + 4]

\* unpack_from(">Q", data, at)[0]
U64(data, at) ==
    IF at < 0 \/ at + 8 > Len(data) THEN Bad
    ELSE IF SubSeq(data, at + 1, at + 4) # <<0, 0, 0, 0>> THEN Huge
    ELSE U32(data, at + 4)

\* x & ~3
AlignDown4(x) == (x \div 4) * 4

RECURSIVE Zeros(_)
Zeros(n) == IF n <= 0 THEN <<>> ELSE <<0>> \o Zeros(n - 1)

\* padding of a block to a multiple of four bytes
Pad4(b) == b \o Zeros((4 - (Len(b) % 4)) % 4)

\* extract_string(data, at) (fdt/misc.py): the bytes from at up to the next
\* NUL; BadStr when it leaves the data
BadStr == <<Bad>>

RECURSIVE extract_string(_, _)
extract_string(data, at) ==
    IF at < 0 \/ at >= Len(data) THEN BadStr
    ELSE IF data[at + 1] = 0 THEN <<>>
    ELSE LET rest == extract_string(data, at + 1)
         IN  IF rest = BadStr THEN BadStr ELSE <<data[at + 1]>> \o rest

(***************************************************************************)
(* Header (fdt/head.py): the ten words of the header, of which the last    *)
(* three exist from versions 2, 3 and 17 on.                               *)
(***************************************************************************)
DTB_BEGIN_NODE == 1
DTB_END_NODE == 2
DTB_PROP == 3
DTB_END == 9
\* 0xD00DFEED
MAGIC == <<208, 13, 254, 237>>

HeaderSize(version) ==
    28 + (IF version >= 2 THEN 4 ELSE 0) + (IF version >= 3 THEN 4 ELSE 0)
       + (IF version >= 17 THEN 4 ELSE 0)

HeaderExport(h) ==
    MAGIC \o BE32(h.total_size) \o BE32(h.off_dt_struct)
        \o BE32(h.off_dt_strings) \o BE32(h.off_mem_rsvmap) \o BE32(h.version)
        \o BE32(h.last_comp_version)
        \o (IF h.version >= 2 THEN BE32(h.boot_cpuid_phys) ELSE <<>>)
        \o (IF h.version >= 3 THEN BE32(h.size_dt_strings) ELSE <<>>)
        \o (IF h.version >= 17 THEN BE32(h.size_dt_struct) ELSE <<>>)

\* Header.parse(data, at)
HeaderParse(data, at) ==
    IF at + 28 > Len(data) THEN [ok |-> FALSE, err |-> "Truncated"]
    ELSE IF SubSeq(data, at + 1, at + 4) # MAGIC THEN [ok |-> FALSE, err |-> "BadMagic"]
    ELSE LET version == U32(data, at + 20)
         IN  IF version = Huge \/ version < 2 \/ version > 17
             THEN [ok |-> FALSE, err |-> "UnsupportedVersion"]
             ELSE IF at + HeaderSize(version) > Len(data)
             THEN [ok |-> FALSE, err |-> "Truncated"]
             ELSE [ok |-> TRUE,
                   header |->
                     [version |-> version,
                      last_comp_version |-> U32(data, at + 24),
                      boot_cpuid_phys |-> U32(data, at + 28),
                      total_size |-> U32(data, at + 4),
                      off_dt_struct |-> U32(data, at + 8),
                      off_dt_strings |-> U32(data, at + 12),
                      off_mem_rsvmap |-> U32(data, at + 16),
                      size_dt_strings |->
                          IF version >= 3 THEN U32(data, at + 32) ELSE 0,
                      size_dt_struct |->
                          IF version >= 17 THEN U32(data, at + 36) ELSE 0]]

(***************************************************************************)
(* Property kinds (fdt/item.py): a property is its name, its kind and its  *)
(* raw encoding; new_property recovers the kind from the raw bytes.        *)
(***************************************************************************)
\* one or more non-empty runs of printable ASCII, each followed by a NUL
IsStrings(raw) ==
    /\ raw # <<>>
    /\ raw[Len(raw)] = 0
    /\ raw[1] # 0
    /\ \A i \in 1..Len(raw) : raw[i] = 0 \/ (raw[i] >= 32 /\ raw[i] <= 126)
    /\ \A i \in 1..(Len(raw) - 1) : ~(raw[i] = 0 /\ raw[i + 1] = 0)

KindOf(raw) ==
    IF raw = <<>> THEN "Empty"
    ELSE IF Len(raw) % 4 = 0 /\ ~IsStrings(raw) THEN "Words"
    ELSE IF IsStrings(raw) THEN "Strings"
    ELSE "Bytes"

new_property(name, raw) == [name |-> name, kind |-> KindOf(raw), raw |-> raw]

(***************************************************************************)
(* Node.to_dtb and Property.to_dtb (fdt/item.py): the structure block of a *)
(* subtree and the string block grown by its property names.               *)
(***************************************************************************)
\* the offset of name followed by NUL in the string block, Bad if absent
StringsFind(strings, name) ==
    LET key  == Append(name, 0)
        hits == {i \in 0..(Len(strings) - Len(key)) :
                    SubSeq(strings, i + 1, i + Len(key)) = key}
    IN  IF hits = {} THEN Bad ELSE CHOOSE i \in hits : \A j \in hits : i <= j

PropToDtb(prop, strings) ==
    LET found   == StringsFind(strings, prop.name)
        strpos  == IF found = Bad THEN Len(strings) ELSE found
        strings2 == IF found = Bad THEN strings \o Append(prop.name, 0) ELSE strings
    IN  [blob |-> BE32(DTB_PROP) \o BE32(Len(prop.raw)) \o BE32(strpos)
                    \o Pad4(prop.raw),
         strings |-> strings2]

RECURSIVE PropsToDtb(_, _)
PropsToDtb(props, strings) ==
    IF props = <<>> THEN [blob |-> <<>>, strings |-> strings]
    ELSE LET one  == PropToDtb(Head(props), strings)
             rest == PropsToDtb(Tail(props), one.strings)
         IN  [blob |-> one.blob \o rest.blob, strings |-> rest.strings]

RECURSIVE NodeToDtb(_, _)
NodeToDtb(node, strings) ==
    LET RECURSIVE Subnodes(_, _)
        Subnodes(nodes, strs) ==
            IF nodes = <<>> THEN [blob |-> <<>>, strings |-> strs]
            ELSE LET one  == NodeToDtb(Head(nodes), strs)
                     rest == Subnodes(Tail(nodes), one.strings)
                 IN  [blob |-> one.blob \o rest.blob, strings |-> rest.strings]
        begin == BE32(DTB_BEGIN_NODE)
                    \o Pad4(IF node.name = RootName THEN <<0>>
                            ELSE Append(node.name, 0))
        props == PropsToDtb(node.props, strings)
        subs  == Subnodes(node.nodes, props.strings)
    IN  [blob |-> begin \o props.blob \o subs.blob \o BE32(DTB_END_NODE),
         strings |-> subs.strings]

(***************************************************************************)
(* FDT.to_dtb                                                              *)
(***************************************************************************)
RECURSIVE PackEntries(_)
PackEntries(entries) ==
    IF entries = <<>> THEN <<>>
    ELSE BE64(Head(entries).address) \o BE64(Head(entries).size)
            \o PackEntries(Tail(entries))

\* the header arguments of to_dtb, assigned when they are not None
ToDtbArgs(h, version, last_comp_version, boot_cpuid_phys) ==
    [h EXCEPT !.version = IF version # None THEN version ELSE @,
              !.last_comp_version =
                  IF last_comp_version # None THEN last_comp_version ELSE @,
              !.boot_cpuid_phys =
                  IF boot_cpuid_phys # None THEN boot_cpuid_phys ELSE @]

ToDtbPatch_NoStrings(h, blob_data_start, len_data, len_strings) ==
    [h EXCEPT !.size_dt_strings = len_strings,
              !.size_dt_struct = len_data,
              !.off_mem_rsvmap = HeaderSize(h.version),
              !.off_dt_struct = blob_data_start,
              !.off_dt_strings = blob_data_start + len_data,
              !.total_size = blob_data_start + len_data]

\* the header fields to_dtb sets once the blocks are built
ToDtbPatch(h, blob_data_start, len_data, len_strings) ==
    [h EXCEPT !.size_dt_strings = len_strings,
              !.size_dt_struct = len_data,
              !.off_mem_rsvmap = HeaderSize(h.version),
              !.off_dt_struct = blob_data_start,
              !.off_dt_strings = blob_data_start + len_data,
              !.total_size = blob_data_start + len_data + len_strings]

\* the tree as a value: its header, the (address, size) values of its
\* entries, and its root node
Snapshot(t, heads) ==
    [header |-> heads[fdt[t].header],
     entries |-> EntryValues(ent, fdt[t].entries),
     root_node |-> fdt[t].root_node]

ToDtb(t) ==
    /\ ret.op = "none"
    /\ \E args \in {<<None, None, None>>, <<2, None, None>>,
                     <<16, None, 1>>, <<17, 16, 1>>} :
         LET h1 == ToDtbArgs(hdr[fdt[t].header], args[1], args[2], args[3])
         IN  IF h1.version = None
             THEN /\ hdr' = [hdr EXCEPT ![fdt[t].header] = h1]
                  /\ ret' = [op |-> "to_dtb", t |-> t, ok |-> FALSE]
             ELSE LET blob_entries ==
                          PackEntries(EntryValues(ent, fdt[t].entries))
                              \o BE64(0) \o BE64(0)
                      blob_data_start == HeaderSize(h1.version) + Len(blob_entries)
                      tree == NodeToDtb(fdt[t].root_node, <<>>)
                      blob_data == tree.blob \o BE32(DTB_END)
                      blob_strings == tree.strings
                      h2 == ToDtbPatch(h1, blob_data_start, Len(blob_data),
                                       Len(blob_strings))
                      heads == [hdr EXCEPT ![fdt[t].header] = h2]
                  IN  /\ hdr' = heads
                      /\ ret' = [op |-> "to_dtb", t |-> t, ok |-> TRUE,
                                 src |-> Snapshot(t, heads),
                                 blob |-> HeaderExport(h2) \o blob_entries
                                            \o blob_data \o blob_strings]
    /\ UNCHANGED <<ent, fdt>>

(***************************************************************************)
(* The node under construction in parse_dts and parse_dtb: tops[1] is      *)
(* root_node, the later elements of tops are the nodes created while no    *)
(* node was open and a root existed (nothing refers to them once they are  *)
(* closed); cur is <<>> for None and else the index of a top followed by   *)
(* the position of the current node in it.                                 *)
(***************************************************************************)
NoBuilder == [tops |-> <<>>, cur |-> <<>>]

BuilderOpen(b, name) ==
    IF b.cur = <<>>
    THEN [tops |-> Append(b.tops, Node(name)), cur |-> <<Len(b.tops) + 1>>]
    ELSE LET k    == Head(b.cur)
             top2 == AppendNodeAt(b.tops[k], Tail(b.cur), Node(name))
         IN  [tops |-> [b.tops EXCEPT ![k] = top2],
              cur  |-> Append(b.cur, Len(NodeAt(top2, Tail(b.cur)).nodes))]

\* curnode = curnode.parent
BuilderClose(b) ==
    IF b.cur = <<>> THEN b
    ELSE [b EXCEPT !.cur = IF Len(b.cur) = 1 THEN <<>>
                           ELSE SubSeq(b.cur, 1, Len(b.cur) - 1)]

BuilderProp(b, prop) ==
    IF b.cur = <<>> THEN b
    ELSE LET k == Head(b.cur)
         IN  [b EXCEPT !.tops[k] = AppendPropAt(@, Tail(b.cur), prop)]

\* fdt_obj.root_node at the end
BuilderRoot(b) == IF b.tops = <<>> THEN None ELSE b.tops[1]

(***************************************************************************)
(* parse_dtb                                                               *)
(***************************************************************************)
ParseErr(e) == [ok |-> FALSE, err |-> e]

\* where parse_dtb(data, offset) reads the header
ParseHeaderAt(offset) == 0

\* where parse_dtb(data, offset) reads the name of a property
ParseNameAt(offset, header, prop_string_pos) ==
    header.off_dt_strings + prop_string_pos

\* index after the name of a node
ParseAlignName_None(index, len) == index + len + 1

ParseAlignName(index, len) == AlignDown4(index + len + 4)

RECURSIVE ParseEntries(_, _, _, _)
ParseEntries(data, offset, index, entries) ==
    LET address == U64(data, offset + index)
        size    == U64(data, offset + index + 8)
    IN  IF address = Bad \/ size = Bad THEN ParseErr("Truncated")
        ELSE IF address = Huge \/ size = Huge THEN ParseErr("Huge")
        ELSE IF address = 0 /\ size = 0 THEN [ok |-> TRUE, entries |-> entries]
        ELSE ParseEntries(data, offset, index + 16,
                          Append(entries, [address |-> address, size |-> size]))

RECURSIVE ParseNodes(_, _, _, _, _)
ParseNodes(data, offset, header, index0, b) ==
    IF Len(data) < offset + index0 + 4 THEN ParseErr("Truncated")
    ELSE
    LET tag   == U32(data, offset + index0)
        index == index0 + 4
    IN  IF tag = DTB_BEGIN_NODE
        THEN LET node_name == extract_string(data, offset + index)
             IN  IF node_name = BadStr THEN ParseErr("Truncated")
                 ELSE ParseNodes(data, offset, header,
                                 ParseAlignName(index, Len(node_name)),
                                 BuilderOpen(b, IF node_name = <<>> THEN RootName
                                                ELSE node_name))
        ELSE IF tag = DTB_END_NODE
        THEN ParseNodes(data, offset, header, index, BuilderClose(b))
        ELSE IF tag = DTB_PROP
        THEN LET prop_size       == U32(data, offset + index)
                 prop_string_pos == U32(data, offset + index + 4)
                 prop_start ==
                     IF header.version < 16 /\ prop_size >= 8
                     THEN ((index + 8 + 7) \div 8) * 8
                     ELSE index + 8
                 prop_name ==
                     IF prop_string_pos = Bad \/ prop_string_pos = Huge THEN BadStr
                     ELSE extract_string(data,
                              ParseNameAt(offset, header, prop_string_pos))
             IN  IF prop_size = Bad \/ prop_name = BadStr THEN ParseErr("Truncated")
                 ELSE IF prop_size = Huge THEN ParseErr("Huge")
                 ELSE LET from == offset + prop_start
                          upto == IF from + prop_size <= Len(data)
                                  THEN from + prop_size ELSE Len(data)
                          prop_raw_value == SubSeq(data, from + 1, upto)
                      IN  ParseNodes(data, offset, header,
                                     AlignDown4(prop_start + prop_size + 3),
                                     BuilderProp(b, new_property(prop_name,
                                                                 prop_raw_value)))
        ELSE IF tag = DTB_END
        THEN [ok |-> TRUE, root_node |-> BuilderRoot(b)]
        ELSE ParseErr("UnknownTag")

parse_dtb(data, offset) ==
    LET h == HeaderParse(data, ParseHeaderAt(offset))
    IN  IF ~h.ok THEN h
        ELSE LET e == ParseEntries(data, offset, h.header.off_mem_rsvmap, <<>>)
             IN  IF ~e.ok THEN e
                 ELSE LET n == ParseNodes(data, offset, h.header,
                                          h.header.off_dt_struct, NoBuilder)
                      IN  IF ~n.ok THEN n
                          ELSE [ok |-> TRUE, header |-> h.header,
                                entries |-> e.entries,
                                root_node |-> n.root_node]

\* the bytes put before a blob: none, four zero bytes, or a copy of the
\* blob's own header
Prefixes(blob) ==
    {<<>>, Zeros(4), SubSeq(blob, 1, HeaderSize(U32(blob, 20)))}

\* parse_dtb(prefix + blob, offset=len(prefix)) of the blob to_dtb returned
ParseDtb ==
    /\ ret.op = "to_dtb" /\ ret.ok
    /\ \E prefix \in Prefixes(ret.blob) :
         ret' = [op |-> "parse_dtb", src |-> ret.src, blob |-> ret.blob,
                 prefix |-> prefix,
                 res |-> parse_dtb(prefix \o ret.blob, Len(prefix))]
    /\ UNCHANGED <<hdr, ent, fdt>>

PropStringsQP ==
    [name |-> <<ChQ, ChP>>, kind |-> "Strings", raw |-> <<ChA, 0, ChB, ChB, 0>>]
PropBytesQ == [name |-> <<ChQ>>, kind |-> "Bytes", raw |-> <<0, 0, 0, 1>>]
PropWordsLong ==
    [name |-> <<ChQ>>, kind |-> "Words", raw |-> <<0, 0, 0, 1, 0, 0, 1, 0>>]

NextDtb ==
    \/ \E name \in NodeNames \cup {<<>>} : AddNode("A", name, MaxNodes - 1)
    \/ \E prop \in {PropEmptyP, PropStringsQP, PropBytesQ, PropWordsLong} :
         AddProp("A", prop, MaxProps)
    \/ \E e \in {<<0, 0>>, <<65536, 2>>} :
         AddEntry("A", e[1], e[2], MaxEntries)
    \/ ToDtb("A")
    \/ ParseDtb

SpecDtb == Init /\ [][NextDtb]_vars

(***************************************************************************)
(* diff                                                                    *)
(***************************************************************************)
PropEmptyQ == [name |-> <<ChQ>>, kind |-> "Empty", raw |-> <<>>]

\* entry_a['address'] == entry_b['address'] and entry_a['size'] == entry_b['size']
EntryFound(entry, refs) ==
    \E i \in 1..Len(refs) :
        /\ EntryOf(ent, entry).address = EntryOf(ent, refs[i]).address
        /\ EntryOf(ent, entry).size = EntryOf(ent, refs[i]).size

\* the entries of the list that are found in the list where / are not
RECURSIVE EntriesFound(_, _, _)
EntriesFound(refs, where, wanted) ==
    IF refs = <<>> THEN <<>>
    ELSE (IF EntryFound(Head(refs), where) = wanted THEN <<Head(refs)>> ELSE <<>>)
            \o EntriesFound(Tail(refs), where, wanted)

\* prop == rnode.get_property(prop.name), rnode being None when ~g.ok
PropInNode_ByName(prop, g) ==
    /\ g.ok
    /\ get_property(NodeAt(g.root, g.pos), prop.name) # 0

PropInNode(prop, g) ==
    /\ g.ok
    /\ LET node  == NodeAt(g.root, g.pos)
           index == get_property(node, prop.name)
       IN  index # 0 /\ node.props[index] = prop

SubnodeInNode_AsProperty(name, g) ==
    g.ok /\ get_property(NodeAt(g.root, g.pos), name) # 0

\* rnode is not None and rnode.get_subnode(name) is not None
SubnodeInNode(name, g) ==
    g.ok /\ get_subnode(NodeAt(g.root, g.pos), name) # 0

\* the loops over the child nodes and the properties of one triple of
\* fdt1.walk(): st holds the roots of fdt_same and fdt_a
RECURSIVE DiffNodesA(_, _, _, _)
DiffNodesA(st, nodes, g, path) ==
    IF nodes = <<>> THEN st
    ELSE LET node_b == Head(nodes)
             next == IF ~SubnodeInNode(node_b.name, g)
                     THEN [st EXCEPT !.a = add_item_node(@, Node(node_b.name),
                                                         path, TRUE).root]
                     ELSE [st EXCEPT !.same = add_item_node(@, Node(node_b.name),
                                                            path, TRUE).root]
         IN  DiffNodesA(next, Tail(nodes), g, path)

RECURSIVE DiffPropsA(_, _, _, _)
DiffPropsA(st, props, g, path) ==
    IF props = <<>> THEN st
    ELSE LET prop_a == Head(props)
             next == IF PropInNode(prop_a, g)
                     THEN [st EXCEPT !.same = add_item_prop(@, prop_a, path, TRUE).root]
                     ELSE [st EXCEPT !.a = add_item_prop(@, prop_a, path, TRUE).root]
         IN  DiffPropsA(next, Tail(props), g, path)

RECURSIVE DiffLoopA(_, _, _)
DiffLoopA(st, triples, root2) ==
    IF triples = <<>> THEN st
    ELSE LET tr == Head(triples)
             g  == get_node(root2, tr.path, FALSE)
         IN  DiffLoopA(DiffPropsA(DiffNodesA(st, tr.nodes, g, tr.path),
                                  tr.props, g, tr.path),
                       Tail(triples), root2)

\* the same for one triple of fdt2.walk(): b is the root of fdt_b
RECURSIVE DiffNodesB(_, _, _, _)
DiffNodesB(b, nodes, g, path) ==
    IF nodes = <<>> THEN b
    ELSE LET node_b == Head(nodes)
             next == IF ~SubnodeInNode(node_b.name, g)
                     THEN add_item_node(b, Node(node_b.name), path, TRUE).root
                     ELSE b
         IN  DiffNodesB(next, Tail(nodes), g, path)

RECURSIVE DiffPropsB(_, _, _, _)
DiffPropsB(b, props, g, path) ==
    IF props = <<>> THEN b
    ELSE LET prop_b == Head(props)
             next == IF ~PropInNode(prop_b, g)
                     THEN add_item_prop(b, prop_b, path, TRUE).root
                     ELSE b
         IN  DiffPropsB(next, Tail(props), g, path)

RECURSIVE DiffLoopB(_, _, _)
DiffLoopB(b, triples, same) ==
    IF triples = <<>> THEN b
    ELSE LET tr == Head(triples)
             g  == get_node(same, tr.path, FALSE)
         IN  DiffLoopB(DiffPropsB(DiffNodesB(b, tr.nodes, g, tr.path),
                                  tr.props, g, tr.path),
                       Tail(triples), same)

\* the header object of fdt_same
DiffSameHeader(fdt1, fdt2) ==
    LET v1 == hdr[fdt[fdt1].header].version
        v2 == hdr[fdt[fdt2].header].version
    IN  IF v1 # None /\ v2 # None
        THEN (IF v1 > v2 THEN fdt[fdt1].header ELSE fdt[fdt2].header)
        ELSE fdt[fdt1].header

Diff(fdt1, fdt2) ==
    /\ ret.op = "none"
    /\ LET e1 == fdt[fdt1].entries
           e2 == fdt[fdt2].entries
           same_entries == EntriesFound(e1, e2, TRUE)
           st == DiffLoopA([same |-> Node(RootName), a |-> Node(RootName)],
                           WalkAll(fdt[fdt1].root_node), fdt[fdt2].root_node)
           b  == DiffLoopB(Node(RootName), WalkAll(fdt[fdt2].root_node), st.same)
       IN  ret' = [op |-> "diff", fdt1 |-> fdt1, fdt2 |-> fdt2,
                   same |-> [header |-> DiffSameHeader(fdt1, fdt2),
                             entries |-> same_entries,
                             root_node |-> st.same],
                   only_a |-> [header |-> fdt[fdt1].header,
                               entries |-> EntriesFound(e1, same_entries, FALSE),
                               root_node |-> st.a],
                   only_b |-> [header |-> fdt[fdt2].header,
                               entries |-> EntriesFound(e2, same_entries, FALSE),
                               root_node |-> b]]
    /\ UNCHANGED <<hdr, ent, fdt>>

NextDiffSelf ==
    \/ \E name \in NodeNames : AddNode("A", name, MaxNodes)
    \/ \E prop \in {PropWords1, PropEmptyQ} : AddProp("A", prop, MaxProps)
    \/ \E prop \in {PropWords1, PropEmptyQ} : NodeAppend("A", prop, MaxProps)
    \/ \E z \in {2, 3} : AddEntry("A", 1, z, MaxEntries)
    \/ Diff("A", "A")

SpecDiffSelf == Init /\ [][NextDiffSelf]_vars

NextDiff ==
    \/ \E name \in NodeNames : AddNode("A", name, MaxNodes - 1)
    \/ \E name \in NodeNames : AddNode("B", name, MaxNodes - 1)
    \/ \E prop \in {PropWords1, PropEmptyQ} : AddProp("A", prop, MaxProps)
    \/ \E prop \in {PropWords1, PropWords2, PropEmptyQ} : AddProp("B", prop, MaxProps)
    \/ \E prop \in {PropWords1, PropEmptyQ} : NodeAppend("A", prop, MaxProps)
    \/ \E prop \in {PropWords1, PropWords2, PropEmptyQ} : NodeAppend("B", prop, MaxProps)
    \/ Diff("A", "B")

SpecDiff == Init /\ [][NextDiff]_vars

(***************************************************************************)
(* parse_dts, from the logical lines on.  The text is a sequence of lines, *)
(* each a string; split_to_lines (fdt/misc.py) has removed the semicolons. *)
(***************************************************************************)
MaxLines == 4

SPACE == 32
LBRACE == 123
RBRACE == 125
EQUALS == 61
LANGLE == 60
RANGLE == 62
LBRACKET == 91
RBRACKET == 93
QUOTE == 34
COMMA == 44
SEMI == 59
Ch0 == 48
ChX == 120

\* '/memreserve/', '/incbin/', '/plugin/', '/bits/'
MEMRESERVE == <<47, 109, 101, 109, 114, 101, 115, 101, 114, 118, 101, 47>>
INCBIN == <<47, 105, 110, 99, 98, 105, 110, 47>>
PLUGIN == <<47, 112, 108, 117, 103, 105, 110, 47>>
BITS == <<47, 98, 105, 116, 115, 47>>

startswith(s, p) == Len(s) >= Len(p) /\ SubSeq(s, 1, Len(p)) = p

endswith(s, p) ==
    Len(s) >= Len(p) /\ SubSeq(s, Len(s) - Len(p) + 1, Len(s)) = p

RECURSIVE rstrip(_, _)
rstrip(s, c) ==
    IF s # <<>> /\ s[Len(s)] = c THEN rstrip(SubSeq(s, 1, Len(s) - 1), c) ELSE s

strip(s, c) == rstrip(lstrip(s, c), c)

\* s.split(): the words between runs of blanks
NonEmpty(x) == x # <<>>

split_ws(s) == SelectSeq(split(s, SPACE), NonEmpty)

\* s.split(sep) for a separator of any length
RECURSIVE SplitStrAcc(_, _, _)
SplitStrAcc(s, sep, cur) ==
    IF s = <<>> THEN <<cur>>
    ELSE IF startswith(s, sep)
         THEN <<cur>> \o SplitStrAcc(SubSeq(s, Len(sep) + 1, Len(s)), sep, <<>>)
         ELSE SplitStrAcc(Tail(s), sep, Append(cur, Head(s)))

split_str(s, sep) == SplitStrAcc(s, sep, <<>>)

\* s.find(c) == -1
NotIn(s, c) == \A i \in 1..Len(s) : s[i] # c

\* s.split(c, maxsplit=1) for a string that holds c
SplitOnce(s, c) ==
    LET i == CHOOSE k \in 1..Len(s) : s[k] = c /\ \A j \in 1..(k - 1) : s[j] # c
    IN  <<SubSeq(s, 1, i - 1), SubSeq(s, i + 1, Len(s))>>

\* the value of a digit, Bad for another character
Digit(c) ==
    IF c >= 48 /\ c <= 57 THEN c - 48
    ELSE IF c >= 97 /\ c <= 102 THEN c - 87
    ELSE IF c >= 65 /\ c <= 70 THEN c - 55
    ELSE Bad

RECURSIVE DigitsValue(_, _, _)
DigitsValue(s, base, acc) ==
    IF s = <<>> THEN acc
    ELSE IF Digit(Head(s)) = Bad \/ Digit(Head(s)) >= base THEN Bad
    ELSE DigitsValue(Tail(s), base, acc * base + Digit(Head(s)))

\* the two-character prefix int() accepts for a base
BasePrefix(base) ==
    IF base = 16 THEN <<Ch0, ChX>>
    ELSE IF base = 2 THEN <<Ch0, ChB>>
    ELSE IF base = 8 THEN <<Ch0, 111>>
    ELSE <<>>

\* int(s, base) for base 2, 8, 10 or 16: Bad for ValueError
IntBase(s, base) ==
    LET p      == BasePrefix(base)
        digits == IF p # <<>> /\ startswith(s, p)
                  THEN SubSeq(s, Len(p) + 1, Len(s)) ELSE s
    IN  IF digits = <<>> THEN Bad ELSE DigitsValue(digits, base, 0)

\* int(s, 0): the base is taken from the prefix, and a decimal number other
\* than zero has no leading zero
IntAuto(s) ==
    IF startswith(s, BasePrefix(16)) THEN IntBase(s, 16)
    ELSE IF startswith(s, BasePrefix(2)) THEN IntBase(s, 2)
    ELSE IF startswith(s, BasePrefix(8)) THEN IntBase(s, 8)
    ELSE IF startswith(s, <<Ch0>>) /\ lstrip(s, Ch0) # <<>> THEN Bad
    ELSE IntBase(s, 10)

\* the words between '<' and '>': the bytes of the PropWords, or a ValueError
RECURSIVE DtsWords(_)
DtsWords(tokens) ==
    IF tokens = <<>> THEN [ok |-> TRUE, raw |-> <<>>]
    ELSE LET prop  == Head(tokens)
             value == IF startswith(prop, <<Ch0, ChX>>) THEN IntBase(prop, 16)
                      ELSE IF startswith(prop, <<Ch0, ChB>>) THEN IntBase(prop, 2)
                      ELSE IF startswith(prop, <<Ch0>>) THEN IntBase(prop, 8)
                      ELSE IntBase(prop, 10)
             rest  == DtsWords(Tail(tokens))
         IN  IF value = Bad \/ ~rest.ok THEN [ok |-> FALSE, raw |-> <<>>]
             ELSE [ok |-> TRUE, raw |-> BE32(value) \o rest.raw]

\* the words between '[' and ']': the bytes of the PropBytes, or a ValueError
RECURSIVE DtsBytes(_)
DtsBytes(tokens) ==
    IF tokens = <<>> THEN [ok |-> TRUE, raw |-> <<>>]
    ELSE LET value == IntBase(Head(tokens), 16)
             rest  == DtsBytes(Tail(tokens))
         IN  IF value = Bad \/ value > 255 \/ ~rest.ok
             THEN [ok |-> FALSE, raw |-> <<>>]
             ELSE [ok |-> TRUE, raw |-> <<value>> \o rest.raw]

\* the strings of a PropStrings, each followed by NUL
RECURSIVE DtsStrings(_)
DtsStrings(parts) ==
    IF parts = <<>> THEN <<>>
    ELSE strip(str_replace(Head(parts), <<QUOTE>>, <<>>), SPACE) \o <<0>>
            \o DtsStrings(Tail(parts))

DtsPropErr == [ok |-> FALSE, prop |-> [name |-> <<>>, kind |-> "Empty", raw |-> <<>>]]

\* the property object of a property statement, or an exception
DtsProperty(line) ==
    IF NotIn(line, EQUALS)
    THEN [ok |-> TRUE, prop |-> [name |-> line, kind |-> "Empty", raw |-> <<>>]]
    ELSE LET parts      == SplitOnce(line, EQUALS)
             prop_name  == rstrip(parts[1], SPACE)
             prop_value == lstrip(parts[2], SPACE)
         IN  IF startswith(prop_value, <<LANGLE>>)
             THEN LET w == DtsWords(split_ws(str_replace(str_replace(
                               prop_value, <<LANGLE>>, <<>>), <<RANGLE>>, <<>>)))
                  IN  IF w.ok
                      THEN [ok |-> TRUE,
                            prop |-> [name |-> prop_name, kind |-> "Words", raw |-> w.raw]]
                      ELSE DtsPropErr
             ELSE IF startswith(prop_value, <<LBRACKET>>)
             THEN LET w == DtsBytes(split_ws(str_replace(str_replace(
                               prop_value, <<LBRACKET>>, <<>>), <<RBRACKET>>, <<>>)))
                  IN  IF w.ok
                      THEN [ok |-> TRUE,
                            prop |-> [name |-> prop_name, kind |-> "Bytes", raw |-> w.raw]]
                      ELSE DtsPropErr
             ELSE IF startswith(prop_value, INCBIN) THEN DtsPropErr
             ELSE IF startswith(prop_value, PLUGIN) THEN DtsPropErr
             ELSE IF startswith(prop_value, BITS) THEN DtsPropErr
             ELSE [ok |-> TRUE,
                   prop |-> [name |-> prop_name, kind |-> "Strings",
                             raw |-> DtsStrings(split_str(prop_value, <<QUOTE, COMMA>>))]]

\* the first loop of parse_dts: the /memreserve/ lines before the first
\* node opener
RECURSIVE DtsEntries(_)
DtsEntries(lines) ==
    IF lines = <<>> \/ endswith(Head(lines), <<LBRACE>>)
    THEN [ok |-> TRUE, entries |-> <<>>]
    ELSE IF startswith(Head(lines), MEMRESERVE)
    THEN LET line == split_ws(strip(Head(lines), SEMI))
             rest == DtsEntries(Tail(lines))
         IN  IF Len(line) # 3 THEN [ok |-> FALSE, entries |-> <<>>]
             ELSE IF IntAuto(line[2]) = Bad \/ IntAuto(line[3]) = Bad \/ ~rest.ok
             THEN [ok |-> FALSE, entries |-> <<>>]
             ELSE [ok |-> TRUE,
                   entries |-> <<[address |-> IntAuto(line[2]),
                                  size |-> IntAuto(line[3])]>> \o rest.entries]
    ELSE DtsEntries(Tail(lines))

\* the second loop of parse_dts: curnode and fdt_obj.root_node after the
\* lines
RECURSIVE DtsNodes(_, _)
DtsNodes(lines, b) ==
    IF lines = <<>> THEN [ok |-> TRUE, b |-> b]
    ELSE LET line == Head(lines)
         IN  IF endswith(line, <<LBRACE>>)
             THEN DtsNodes(Tail(lines), BuilderOpen(b, split_ws(line)[1]))
             ELSE IF endswith(line, <<RBRACE>>)
             THEN DtsNodes(Tail(lines), BuilderClose(b))
             ELSE LET p == DtsProperty(line)
                  IN  IF p.ok THEN DtsNodes(Tail(lines), BuilderProp(b, p.prop))
                      ELSE [ok |-> FALSE, b |-> NoBuilder]

\* what get_version_info found in the text
DtsVersions ==
    {[version |-> None, last_comp_version |-> None, boot_cpuid_phys |-> None],
     [version |-> 17, last_comp_version |-> 16, boot_cpuid_phys |-> 0]}

DtsHeader(ver) ==
    [NewHeader EXCEPT
       !.version = IF ver.version # None THEN ver.version ELSE @,
       !.last_comp_version =
           IF ver.last_comp_version # None THEN ver.last_comp_version ELSE @,
       !.boot_cpuid_phys =
           IF ver.boot_cpuid_phys # None THEN ver.boot_cpuid_phys ELSE @]

\* the FDT object parse_dts returns: tops[1] is its root_node, which is
\* None when tops is empty
parse_dts(ver, lines) ==
    LET e == DtsEntries(lines)
        n == DtsNodes(lines, NoBuilder)
    IN  IF e.ok /\ n.ok
        THEN [ok |-> TRUE, header |-> DtsHeader(ver), entries |-> e.entries,
              tops |-> n.b.tops]
        ELSE [ok |-> FALSE, header |-> DtsHeader(ver), entries |-> <<>>,
              tops |-> <<>>]

\* 'a {', 'bbbb {', '}', 'p', 'q = <1 0x10>', 'q = <08>', 'q = [0a]',
\* 'p = "a", "b"' and '/memreserve/ 1 0x2'
DtsLines ==
    {<<ChA, SPACE, LBRACE>>,
     <<ChB, ChB, ChB, ChB, SPACE, LBRACE>>,
     <<RBRACE>>,
     <<ChP>>,
     <<ChQ, SPACE, EQUALS, SPACE, LANGLE, 49, SPACE, Ch0, ChX, 49, Ch0, RANGLE>>,
     <<ChQ, SPACE, EQUALS, SPACE, LANGLE, Ch0, 56, RANGLE>>,
     <<ChQ, SPACE, EQUALS, SPACE, LBRACKET, Ch0, ChA, RBRACKET>>,
     <<ChP, SPACE, EQUALS, SPACE, QUOTE, ChA, QUOTE, COMMA, SPACE, QUOTE, ChB, QUOTE>>,
     MEMRESERVE \o <<SPACE, 49, SPACE, Ch0, ChX, 50>>}

ParseDts ==
    /\ ret.op = "none"
    /\ \E lines \in SeqsUpTo(DtsLines, MaxLines), ver \in DtsVersions :
         ret' = [op |-> "parse_dts", lines |-> lines, ver |-> ver,
                 res |-> parse_dts(ver, lines)]
    /\ UNCHANGED <<hdr, ent, fdt>>

NextDts == ParseDts

SpecDts == Init /\ [][NextDts]_vars

NextGetNode ==
    \/ \E name \in NodeNames : AddNode("A", name, MaxNodes)
    \/ AddProp("A", PropEmptyP, 1)
    \/ GetNode("A")

SpecGetNode == Init /\ [][NextGetNode]_vars

(***************************************************************************)
(* C8: get_node.                                                           *)
(***************************************************************************)
\* the longest prefix of names that resolves from the node at pos, taking at
\* each step the first child of that name: the position reached and the
\* names left over
RECURSIVE Resolve(_, _, _)
Resolve(root, pos, names) ==
    IF names = <<>> THEN [pos |-> pos, rest |-> <<>>]
    ELSE LET kids == NodeAt(root, pos).nodes
             hits == {i \in 1..Len(kids) : kids[i].name = Head(names)}
         IN  IF hits = {} THEN [pos |-> pos, rest |-> names]
             ELSE Resolve(root, Append(pos, CHOOSE i \in hits : \A j \in hits : i <= j),
                          Tail(names))

\* a chain of fresh nodes, one per name, each the only child of the previous
RECURSIVE Chain(_)
Chain(names) ==
    [name |-> Head(names), props |-> <<>>,
     nodes |-> IF Len(names) = 1 THEN <<>> ELSE <<Chain(Tail(names))>>]

\* C8: get_node(path, create=False) returns the node reached by resolving
\* each name in turn when every segment exists and otherwise fails and leaves
\* the tree unchanged; get_node(path, create=True) succeeds, appends exactly
\* the missing nodes as one chain under the last node that resolved, changes
\* nothing else, and a following get_node(path, create=False) returns the
\* same node.
C8_GetNode ==
    ret.op = "get_node" =>
        LET r    == Resolve(ret.pre, <<>>, ret.names)
            post == fdt[ret.t].root_node
            at   == NodeAt(ret.pre, r.pos)
        IN  IF ~ret.create
            THEN /\ post = ret.pre
                 /\ ret.ok <=> (r.rest = <<>>)
                 /\ ret.ok => ret.pos = r.pos
            ELSE /\ ret.ok
                 /\ post = IF r.rest = <<>> THEN ret.pre
                           ELSE ReplaceAt(ret.pre, r.pos,
                                    [at EXCEPT !.nodes = Append(@, Chain(r.rest))])
                 /\ ret.pos = r.pos \o [i \in 1..Len(r.rest) |->
                                          IF i = 1 THEN Len(at.nodes) + 1 ELSE 1]
                 /\ LET again == get_node(post, ret.path, FALSE)
                    IN  again.ok /\ again.pos = ret.pos /\ again.root = post

\* get_node("/a/bbbb"-like path, create=True) created two nodes below an
\* existing one
W_C8 ==
    /\ ret.op = "get_node" /\ ret.create /\ ret.ok
    /\ Len(ret.path) > 0 /\ ret.path[1] = SLASH
    /\ Len(ret.names) = 2
    /\ CountNodes(fdt[ret.t].root_node) = CountNodes(ret.pre) + 2
    /\ CountNodes(ret.pre) > 1

\* get_node(path, create=False) failed on a path whose first segment exists
W_C8_NotFound ==
    /\ ret.op = "get_node" /\ ~ret.create /\ ~ret.ok
    /\ Resolve(ret.pre, <<>>, ret.names).pos # <<>>

(***************************************************************************)
(* C5, C6: walk.                                                           *)
(***************************************************************************)
IsPrefix(p, q) == Len(p) <= Len(q) /\ SubSeq(q, 1, Len(p)) = p

WalkSubtree == {p \in Positions(fdt[ret.t].root_node, <<>>) : IsPrefix(ret.start, p)}

\* C5: walk from an existing start path ends after one turn per node of the
\* subtree at the start node and yields every node object of that subtree
\* exactly once, each with its own child list and property list.
C5_WalkOnce ==
    ret.op = "walk" =>
        LET out  == ret.out
            root == fdt[ret.t].root_node
        IN  /\ \A i, j \in 1..Len(out) : out[i].pos = out[j].pos => i = j
            /\ \A i \in 1..Len(out) :
                 /\ out[i].pos \in WalkSubtree
                 /\ out[i].nodes = NodeAt(root, out[i].pos).nodes
                 /\ out[i].props = NodeAt(root, out[i].pos).props
            /\ Len(out) <= Cardinality(WalkSubtree)
            /\ ret.done <=> Len(out) = Cardinality(WalkSubtree)
            /\ ret.done => {out[i].pos : i \in 1..Len(out)} = WalkSubtree

\* a walk from a node below the root ended having yielded three nodes
W_C5 ==
    /\ ret.op = "walk" /\ ret.done
    /\ ret.start # <<>>
    /\ Len(ret.out) = 3

\* the index at which the walk yielded the node at position p
WalkIndex(p) == CHOOSE i \in 1..Len(ret.out) : ret.out[i].pos = p

WalkPreOrder ==
    LET out == ret.out
    IN  /\ \A i, j \in 1..Len(out) :
             (IsPrefix(out[i].pos, out[j].pos) /\ i # j) => i < j
        /\ \A i, j, k \in 1..Len(out) :
             (i < j /\ j < k /\ IsPrefix(out[i].pos, out[k].pos))
                 => IsPrefix(out[i].pos, out[j].pos)

\* C6 as stated: pre-order, and the children of a node are visited in the
\* order of the node's child list.
C6_WalkChildOrder ==
    (ret.op = "walk" /\ ret.done) =>
        /\ WalkPreOrder
        /\ \A p \in WalkSubtree : \A a, b \in 1..Len(NodeAt(fdt[ret.t].root_node, p).nodes) :
             a < b => WalkIndex(Append(p, a)) < WalkIndex(Append(p, b))

\* C6 amended: each node is yielded before all of its descendants, the
\* descendants of a node are yielded contiguously right after it, and the
\* children of a node are visited in the reverse of the order of the node's
\* child list (the last child first).
C6_WalkReverseChildOrder ==
    (ret.op = "walk" /\ ret.done) =>
        /\ WalkPreOrder
        /\ \A p \in WalkSubtree : \A a, b \in 1..Len(NodeAt(fdt[ret.t].root_node, p).nodes) :
             a < b => WalkIndex(Append(p, b)) < WalkIndex(Append(p, a))

\* a walk ended on a tree whose root has two children, the first of which
\* has a child of its own
W_C6 ==
    /\ ret.op = "walk" /\ ret.done /\ ret.start = <<>>
    /\ Len(fdt[ret.t].root_node.nodes) = 2
    /\ Len(fdt[ret.t].root_node.nodes[1].nodes) = 1

(***************************************************************************)
(* C7: merge of the reservation entries.                                   *)
(***************************************************************************)
\* mine followed by those of theirs whose address does not occur before them
RECURSIVE UnionByAddress(_, _)
UnionByAddress(mine, theirs) ==
    IF theirs = <<>> THEN mine
    ELSE IF \E i \in 1..Len(mine) : mine[i].address = Head(theirs).address
         THEN UnionByAddress(mine, Tail(theirs))
         ELSE UnionByAddress(Append(mine, Head(theirs)), Tail(theirs))

\* C7: after A.merge(B), A's reservations are A's previous entries, values
\* and order unchanged, followed by the entries of B whose address did not
\* already occur in A; and a second A.merge(B) leaves them unchanged.
C7_MergeEntriesUnion ==
    ret.op = "merge" =>
        LET post == EntryValues(ent, fdt[ret.self].entries)
        IN  /\ post = UnionByAddress(ret.pre_self, ret.pre_other)
            /\ ret.n >= 2 => post = ret.pre_self

(***************************************************************************)
(* C1: the header after to_dtb.                                            *)
(***************************************************************************)
\* C1: after to_dtb returns, off_mem_rsvmap is the header size, off_dt_struct
\* is the header size plus 16 bytes per reservation and 16 for the
\* terminator, the structure block ends where the string block starts, the
\* string block ends at total_size, and total_size is the length of the
\* returned blob.
C1_ToDtbOffsets ==
    (ret.op = "to_dtb" /\ ret.ok) =>
        LET h == hdr[fdt[ret.t].header]
        IN  /\ h.off_mem_rsvmap = HeaderSize(h.version)
            /\ h.off_dt_struct = HeaderSize(h.version) + 16 * (Len(fdt[ret.t].entries) + 1)
            /\ h.off_dt_struct + h.size_dt_struct = h.off_dt_strings
            /\ h.off_dt_strings + h.size_dt_strings = h.total_size
            /\ h.total_size = Len(ret.blob)

\* to_dtb returned for a tree with two reservations and a non-empty string
\* block
W_C1 ==
    /\ ret.op = "to_dtb" /\ ret.ok
    /\ Len(fdt[ret.t].entries) = 2
    /\ hdr[fdt[ret.t].header].size_dt_strings > 0

(***************************************************************************)
(* C2: parse_dtb(T.to_dtb()).                                              *)
(***************************************************************************)
RoundTrip ==
    /\ ret.res.ok
    /\ ret.res.entries = ret.src.entries
    /\ ret.res.header.version = ret.src.header.version
    /\ ret.res.header.last_comp_version = ret.src.header.last_comp_version
    /\ ret.res.header.boot_cpuid_phys = ret.src.header.boot_cpuid_phys
    /\ ret.res.root_node = ret.src.root_node

\* every property of the subtree is of the kind its raw bytes decode to
RECURSIVE KindsRecoverable(_)
KindsRecoverable(node) ==
    /\ \A i \in 1..Len(node.props) : node.props[i].kind = KindOf(node.props[i].raw)
    /\ \A i \in 1..Len(node.nodes) : KindsRecoverable(node.nodes[i])

\* C2 as stated: for any tree T with version >= 16, parse_dtb(T.to_dtb()) has
\* T's reservations, T's header core fields and T's root subtree.
C2_RoundTripAny ==
    (ret.op = "parse_dtb" /\ ret.prefix = <<>> /\ ret.src.header.version >= 16)
        => RoundTrip

\* no node below the root has the empty name
RECURSIVE NamesNonEmpty(_)
NamesNonEmpty(node) ==
    \A i \in 1..Len(node.nodes) :
        node.nodes[i].name # <<>> /\ NamesNonEmpty(node.nodes[i])

\* C2 amended: for any tree T with version >= 16 that has no reservation
\* (0, 0), no node with an empty name, and whose properties are of the kind
\* their raw bytes decode to, parse_dtb(T.to_dtb()) has T's reservations,
\* T's header core fields and T's root subtree.
C2_RoundTrip ==
    (/\ ret.op = "parse_dtb" /\ ret.prefix = <<>>
     /\ ret.src.header.version >= 16
     /\ \A i \in 1..Len(ret.src.entries) :
          ret.src.entries[i] # [address |-> 0, size |-> 0]
     /\ NamesNonEmpty(ret.src.root_node)
     /\ KindsRecoverable(ret.src.root_node))
        => RoundTrip

\* the blob of a tree with a reservation, nested nodes and two properties
\* whose names share the string "qp" of the string block was parsed back
W_C2 ==
    /\ ret.op = "parse_dtb" /\ ret.prefix = <<>>
    /\ ret.src.header.version >= 16
    /\ ret.src.entries = <<[address |-> 65536, size |-> 2]>>
    /\ KindsRecoverable(ret.src.root_node)
    /\ Len(ret.src.root_node.nodes) = 1
    /\ Len(ret.src.root_node.nodes[1].nodes) = 1
    /\ CountProps(ret.src.root_node) = 2
    /\ ret.src.header.size_dt_strings = 3
    /\ RoundTrip

(***************************************************************************)
(* C9: the offset argument of parse_dtb.                                   *)
(***************************************************************************)
\* C9: parse_dtb(P + D, offset=len(P)) returns what parse_dtb(D, 0) returns.
C9_ParseAtOffset ==
    ret.op = "parse_dtb" =>
        ret.res = parse_dtb(ret.blob, 0)

(***************************************************************************)
(* C3, C4: diff.                                                           *)
(***************************************************************************)
\* no two children of a node of the subtree have the same name
RECURSIVE UniqueSiblings(_)
UniqueSiblings(node) ==
    /\ \A i, j \in 1..Len(node.nodes) :
         node.nodes[i].name = node.nodes[j].name => i = j
    /\ \A i \in 1..Len(node.nodes) : UniqueSiblings(node.nodes[i])

EmptyRoot == [name |-> RootName, props |-> <<>>, nodes |-> <<>>]

DiffSelf ==
    /\ EntryValues(ent, ret.same.entries) = EntryValues(ent, fdt[ret.fdt1].entries)
    /\ ret.same.root_node = fdt[ret.fdt1].root_node
    /\ ret.only_a.entries = <<>> /\ ret.only_a.root_node = EmptyRoot
    /\ ret.only_b.entries = <<>> /\ ret.only_b.root_node = EmptyRoot

RECURSIVE NamePath(_, _)
NamePath(root, pos) ==
    IF pos = <<>> THEN <<>>
    ELSE <<root.nodes[Head(pos)].name>> \o NamePath(root.nodes[Head(pos)], Tail(pos))

\* the paths of the nodes of a tree, and the properties held at a path
PathsOf(root) == {NamePath(root, pos) : pos \in Positions(root, <<>>)}

PropsAtPath(root, np) ==
    UNION {{NodeAt(root, pos).props[i] : i \in 1..Len(NodeAt(root, pos).props)} :
             pos \in {q \in Positions(root, <<>>) : NamePath(root, q) = np}}

AllProps(root) == UNION {PropsAtPath(root, np) : np \in PathsOf(root)}

\* what one input (mine, its peer being theirs) gives to same and to its
\* only-side tree
DiffSide(mine, theirs, same, only) ==
    /\ \A np \in PathsOf(mine) : \A prop \in PropsAtPath(mine, np) :
         /\ (prop \in PropsAtPath(same, np)) # (prop \in PropsAtPath(only, np))
         /\ (prop \in PropsAtPath(same, np)) <=> (prop \in PropsAtPath(theirs, np))
    /\ \A np \in PathsOf(mine) :
         /\ (np \in PathsOf(same)) <=> (np \in PathsOf(theirs))
         /\ (np \notin PathsOf(theirs)) => (np \in PathsOf(only))
    /\ PathsOf(only) \subseteq PathsOf(mine)
    /\ \A np \in PathsOf(only) : PropsAtPath(only, np) \subseteq PropsAtPath(mine, np)

S6_A == [EmptyRoot EXCEPT !.nodes = <<[Node(NameA) EXCEPT !.props = <<PropWords1>>]>>]
S6_B == [EmptyRoot EXCEPT !.nodes = <<[Node(NameA) EXCEPT !.props = <<PropWords2>>]>>]

DiffPartition ==
    LET a == fdt[ret.fdt1].root_node
        b == fdt[ret.fdt2].root_node
    IN  /\ DiffSide(a, b, ret.same.root_node, ret.only_a.root_node)
        /\ DiffSide(b, a, ret.same.root_node, ret.only_b.root_node)
        /\ PathsOf(ret.same.root_node) \subseteq PathsOf(a) \cap PathsOf(b)
        /\ (a = S6_A /\ b = S6_B) =>
             /\ ret.same.root_node = [EmptyRoot EXCEPT !.nodes = <<Node(NameA)>>]
             /\ ret.only_a.root_node = S6_A
             /\ ret.only_b.root_node = S6_B

W_C4_Mixed ==
    /\ ret.op = "diff"
    /\ UniqueSiblings(fdt[ret.fdt1].root_node)
    /\ UniqueSiblings(fdt[ret.fdt2].root_node)
    /\ AllProps(ret.same.root_node) # {}
    /\ AllProps(ret.only_a.root_node) # {}
    /\ AllProps(ret.only_b.root_node) # {}
    /\ PathsOf(fdt[ret.fdt1].root_node) \ PathsOf(fdt[ret.fdt2].root_node) # {}

(***************************************************************************)
(* C10: parse_dts.                                                         *)
(***************************************************************************)
IsOpener(line) == endswith(line, <<LBRACE>>)

IsCloser(line) == ~IsOpener(line) /\ endswith(line, <<RBRACE>>)

IsStatement(line) == ~IsOpener(line) /\ ~IsCloser(line)

\* the number of nodes open before line i
DepthAt(lines, i) ==
    Cardinality({j \in 1..(i - 1) : IsOpener(lines[j])})
        - Cardinality({j \in 1..(i - 1) : IsCloser(lines[j])})

\* every closer closes an open node and no node is left open
Balanced(lines) ==
    /\ \A i \in 1..Len(lines) : IsCloser(lines[i]) => DepthAt(lines, i) > 0
    /\ DepthAt(lines, Len(lines) + 1) = 0

\* a statement outside every node is a /memreserve/ before the first
\* opener, and no other statement is a /memreserve/
StatementsInNodes(lines) ==
    \A i \in 1..Len(lines) : IsStatement(lines[i]) =>
        IF startswith(lines[i], MEMRESERVE)
        THEN \A j \in 1..i : ~IsOpener(lines[j])
        ELSE DepthAt(lines, i) > 0

NodesInText(lines) == Cardinality({i \in 1..Len(lines) : IsOpener(lines[i])})

PropsInText(lines) ==
    Cardinality({i \in 1..Len(lines) :
                   IsStatement(lines[i]) /\ ~startswith(lines[i], MEMRESERVE)})

NodesInTree(res) == IF res.tops = <<>> THEN 0 ELSE CountNodes(res.tops[1])

PropsInTree(res) == IF res.tops = <<>> THEN 0 ELSE CountProps(res.tops[1])

\* C10: for lines with balanced braces whose property statements are all
\* inside a node, every node opener and every property statement of the
\* text has its node or property in the tree under the root parse_dts
\* returns: none is dropped.
C10_ParseDtsKeepsAll ==
    (/\ ret.op = "parse_dts" /\ ret.res.ok
     /\ Balanced(ret.lines) /\ StatementsInNodes(ret.lines)) =>
        /\ NodesInTree(ret.res) = NodesInText(ret.lines)
        /\ PropsInTree(ret.res) = PropsInText(ret.lines)


(***************************************************************************)
(* C11: the argument of merge.                                             *)
(***************************************************************************)
\* C11: after each call A.merge(B, replace), in any sequence of such calls,
\* B's header fields, the (address, size) values of B's reservation entries
\* and B's root subtree are what they were before the call.
C11_MergeKeepsArgument ==
    ret.op = "merge" =>
        /\ hdr[fdt[ret.other].header] = ret.pre_hdr[ret.pre_fdt[ret.other].header]
        /\ EntryValues(ent, fdt[ret.other].entries) = ret.pre_other
        /\ fdt[ret.other].root_node = ret.pre_fdt[ret.other].root_node

====
